---- MODULE Spec2Model ----
(***************************************************************************)
(* Model of the reports application: report templates and their sharing,   *)
(* the list / generate / edit views, the output encoder, the scope         *)
(* resolver and the rows of the built-in reports.                          *)
(*                                                                         *)
(* Text is modelled as a sequence of tokens: a token is either a run of    *)
(* ordinary characters ("name", "X", "1") or one special character         *)
(* (",", "\t", "\"", " ", "\r\n").                                         *)
(***************************************************************************)
EXTENDS Integers, Sequences, FiniteSets, TLC

VARIABLES templates, generated, request, response, output, scope

vars == <<templates, generated, request, response, output, scope>>

\* ------------------------------------------------------------------ bounds
NumUsers == 2
MaxTemplates == 1
MaxListed == 2
MaxRows == 2
NumFactions == 2
NumFacilities == 2
NumOrgs == 2

Users == 1..NumUsers
\* django's AnonymousUser: authenticated nowhere, owner of nothing
Anonymous == 0
Requesters == Users \cup {Anonymous}
TemplateIds == 1..MaxTemplates

\* --------------------------------------------------------------- text
COMMA == ","
TAB == "\t"
QUOTE == "\""
SPACE == " "
CRLF == "\r\n"
LF == "\n"
EQUALS == "="

RECURSIVE Concat(_)
\* the concatenation of a sequence of texts
Concat(ts) == IF ts = <<>> THEN <<>> ELSE Head(ts) \o Concat(Tail(ts))

RECURSIVE Join(_, _)
\* sep.join(ts)
Join(ts, sep) ==
    IF ts = <<>> THEN <<>>
    ELSE IF Len(ts) = 1 THEN Head(ts)
    ELSE Head(ts) \o sep \o Join(Tail(ts), sep)

Contains(text, tok) == \E i \in 1..Len(text) : text[i] = tok

\* python values that occur in a row: a string, an integer or None
PyStr(s) == [t |-> "str", n |-> 0, s |-> s]
PyInt(n) == [t |-> "int", n |-> n, s |-> <<>>]
PyNoneValue == [t |-> "none", n |-> 0, s |-> <<>>]

Digits == <<"0", "1", "2", "3", "4", "5", "6", "7", "8", "9">>

\* str(value)
str(v) ==
    IF v.t = "str" THEN v.s
    ELSE IF v.t = "int" THEN <<Digits[v.n + 1]>>
    ELSE <<"None">>

\* ------------------------------------------------------- output encoder
\* a row is a python dict: its items in insertion order
Item(k, v) == [k |-> k, v |-> v]
RowKeys(row) == [i \in 1..Len(row) |-> row[i].k]
HasKey(row, key) == \E i \in 1..Len(row) : row[i].k = key
RowGet(row, key, default) ==
    IF HasKey(row, key)
    THEN (CHOOSE it \in {row[i] : i \in 1..Len(row)} : it.k = key).v
    ELSE default

\* outcome of a call: a returned value or a raised exception
Returned(payload, extension, stem) ==
    [ok |-> TRUE, error |-> "", payload |-> payload,
     extension |-> extension, stem |-> stem]
Raised(error) ==
    [ok |-> FALSE, error |-> error, payload |-> <<>>,
     extension |-> "", stem |-> <<>>]

\* csv.writer, QUOTE_MINIMAL: the text of one field
csv_cell(v) == IF v.t = "none" THEN <<>> ELSE str(v)

RECURSIVE csv_escape(_)
\* doublequote=True: every quote character inside a quoted field is doubled
csv_escape(text) ==
    IF text = <<>> THEN <<>>
    ELSE (IF Head(text) = QUOTE THEN <<QUOTE, QUOTE>> ELSE <<Head(text)>>)
         \o csv_escape(Tail(text))

csv_needs_quote(text, delimiter) ==
    \/ Contains(text, delimiter)
    \/ Contains(text, QUOTE)
    \/ Contains(text, CRLF)
    \/ Contains(text, LF)

csv_field(text, delimiter, alone) ==
    IF csv_needs_quote(text, delimiter) \/ (alone /\ text = <<>>)
    THEN <<QUOTE>> \o csv_escape(text) \o <<QUOTE>>
    ELSE text

\* csv.writer.writerow: the fields joined by the delimiter, then "\r\n"
csv_writerow(cells, delimiter) ==
    Join([i \in 1..Len(cells) |->
              csv_field(cells[i], delimiter, Len(cells) = 1)],
         <<delimiter>>) \o <<CRLF>>

\* csv.DictWriter._dict_to_list with extrasaction="raise", restval=""
dict_has_extras(row, fieldnames) ==
    \E i \in 1..Len(row) :
        \A j \in 1..Len(fieldnames) : fieldnames[j] # row[i].k

\* the row's values in the row's own order instead of the header's
dict_to_list_row_order(row, fieldnames) ==
    [j \in 1..Len(row) |-> csv_cell(row[j].v)]

dict_to_list(row, fieldnames) ==
    [j \in 1..Len(fieldnames) |->
        csv_cell(RowGet(row, fieldnames[j], PyStr(<<>>)))]

_serialize_rows(rows, delimiter) ==
    IF rows = <<>> THEN [ok |-> TRUE, payload |-> <<>>]
    ELSE LET fieldnames == RowKeys(rows[1])
             header == csv_writerow([j \in 1..Len(fieldnames) |->
                                        <<fieldnames[j]>>], delimiter)
         IN  IF \E i \in 1..Len(rows) : dict_has_extras(rows[i], fieldnames)
             THEN [ok |-> FALSE, payload |-> <<>>]
             ELSE [ok |-> TRUE,
                   payload |-> header \o Concat([i \in 1..Len(rows) |->
                       csv_writerow(dict_to_list(rows[i], fieldnames),
                                    delimiter)])]

PDF_TITLE == "Campfire Connections Report"

_pdf_placeholder(rows) ==
    <<PDF_TITLE, LF>> \o
    Concat([i \in 1..Len(rows) |->
        Join([j \in 1..Len(rows[i]) |->
                 <<rows[i][j].k, EQUALS>> \o str(rows[i][j].v)],
             <<COMMA, SPACE>>) \o <<LF>>])

\* str.lower() on the letters that occur in the formats
UpperLetters == <<"C", "S", "V", "E", "X", "L", "P", "D", "F">>
LowerLetters == <<"c", "s", "v", "e", "x", "l", "p", "d", "f">>
lower_char(c) ==
    IF \E i \in 1..Len(UpperLetters) : UpperLetters[i] = c
    THEN LowerLetters[CHOOSE i \in 1..Len(UpperLetters) : UpperLetters[i] = c]
    ELSE c
lower(word) == [i \in 1..Len(word) |-> lower_char(word[i])]

\* an output_format argument: None or a string
PyNone == [none |-> TRUE, s |-> <<>>]
Format(s) == [none |-> FALSE, s |-> s]

CSV == <<"c", "s", "v">>
EXCEL == <<"e", "x", "c", "e", "l">>
PDF == <<"p", "d", "f">>

\* django.utils.text.slugify on token text: ordinary tokens are lowered,
\* punctuation is dropped, whitespace becomes one hyphen, hyphens are
\* stripped at both ends
RECURSIVE slug_tokens(_)
slug_tokens(text) ==
    IF text = <<>> THEN <<>>
    ELSE LET c == Head(text)
             rest == slug_tokens(Tail(text))
         IN  IF c \in {COMMA, QUOTE, EQUALS} THEN rest
             ELSE IF c \in {SPACE, TAB, LF, CRLF}
                  THEN (IF rest # <<>> /\ Head(rest) = "-"
                        THEN rest ELSE <<"-">> \o rest)
                  ELSE <<lower_char(c)>> \o rest

RECURSIVE strip_hyphens(_)
strip_hyphens(text) ==
    IF text = <<>> THEN <<>>
    ELSE IF Head(text) = "-" THEN strip_hyphens(Tail(text))
    ELSE IF text[Len(text)] = "-" THEN strip_hyphens(SubSeq(text, 1, Len(text) - 1))
    ELSE text

slugify(name) == strip_hyphens(slug_tokens(name))

\* filters as parsed: a dict (with or without a "rows" entry) or another value
FiltersDict(has_rows, rows) == [is_dict |-> TRUE, has_rows |-> has_rows, rows |-> rows]
FiltersOther == [is_dict |-> FALSE, has_rows |-> FALSE, rows |-> <<>>]

default_rows(report_name) ==
    << <<Item("name", PyStr(report_name)), Item("value", PyInt(1))>> >>

\* rows = filters.get("rows") or default_rows, for a dict; else default_rows
report_rows(report_name, filters) ==
    IF filters.is_dict
    THEN (IF filters.has_rows /\ filters.rows # <<>>
          THEN filters.rows ELSE default_rows(report_name))
    ELSE default_rows(report_name)

\* the format taken as written, without lower()
normal_format_case_sensitive(output_format) ==
    IF output_format.none \/ output_format.s = <<>> THEN CSV
    ELSE output_format.s

\* (output_format or "csv").lower()
normal_format(output_format) ==
    lower(IF output_format.none \/ output_format.s = <<>> THEN CSV
          ELSE output_format.s)

filename_stem(report_name) ==
    IF slugify(report_name) = <<>> THEN <<"report">> ELSE slugify(report_name)

generate_report_output(report_name, filters, output_format) ==
    LET rows == report_rows(report_name, filters)
        fmt == normal_format(output_format)
        stem == filename_stem(report_name)
    IN  IF fmt = PDF THEN Returned(_pdf_placeholder(rows), "pdf", stem)
        ELSE IF fmt = EXCEL
             THEN (IF _serialize_rows(rows, TAB).ok
                   THEN Returned(_serialize_rows(rows, TAB).payload, "xlsx", stem)
                   ELSE Raised("ValueError: dict contains fields not in fieldnames"))
        ELSE IF fmt = CSV
             THEN (IF _serialize_rows(rows, COMMA).ok
                   THEN Returned(_serialize_rows(rows, COMMA).payload, "csv", stem)
                   ELSE Raised("ValueError: dict contains fields not in fieldnames"))
        ELSE Raised("ValueError: Unsupported format")

\* ------------------------------------------ inputs of the output encoder
ReportNames == { <<"X", SPACE, "X">>, <<COMMA>> }
NameValues == { PyStr(<<"X">>), PyStr(<<"a", COMMA, "b">>), PyNoneValue }
ValueValues == { PyInt(1), PyNoneValue }

RowInputs ==
    { <<>> }
    \cup { <<Item("name", a)>> : a \in NameValues }
    \cup { <<Item("value", b)>> : b \in ValueValues }
    \cup { <<Item("name", a), Item("value", b)>> :
               a \in NameValues, b \in ValueValues }
    \cup { <<Item("value", b), Item("name", a)>> :
               a \in NameValues, b \in ValueValues }

RowSeqInputs == UNION { [1..n -> RowInputs] : n \in 0..MaxRows }

FiltersInputs ==
    { FiltersOther, FiltersDict(FALSE, <<>>) }
    \cup { FiltersDict(TRUE, rows) : rows \in RowSeqInputs }

FormatInputs ==
    { PyNone, Format(<<>>), Format(CSV), Format(<<"C", "S", "V">>),
      Format(<<"E", "x", "c", "e", "l">>), Format(PDF),
      Format(<<"m", "a", "r", "k", "d", "o", "w", "n">>) }

\* no call of generate_report_output is under way
NoOutput == [called |-> FALSE]

\* the arguments of a call of generate_report_output, before it is made
OutputCall(name, filters, format) ==
    [called |-> FALSE, name |-> name, filters |-> filters,
     format |-> format, result |-> Raised("")]

\* the call generate_report_output(report, filters, output_format)
GenerateReportOutput ==
    /\ ~output.called
    /\ output' = [output EXCEPT
                    !.called = TRUE,
                    !.result = generate_report_output(output.name, output.filters,
                                                      output.format)]
    /\ UNCHANGED <<templates, generated, request, response, scope>>

NextOutput == GenerateReportOutput

\* -------------------------------------------------------- scope resolver
Factions == 1..NumFactions
Facilities == 1..NumFacilities
Orgs == 1..NumOrgs

\* a profile field: NoProfile, a profile without assignment, or the assigned id
NoProfile == -1
Unassigned == 0
\* the organization of get_profile(): None (or get_profile raises), or its id
NoOrg == 0

\* the request's user as the resolver reads it; present = FALSE is user None
ScopeUsers ==
    [present : {TRUE}, is_authenticated : BOOLEAN,
     is_superuser : BOOLEAN, is_staff : BOOLEAN,
     leader : {NoProfile, Unassigned} \cup Factions,
     faculty : {NoProfile, Unassigned} \cup Facilities,
     attendee : {NoProfile, Unassigned} \cup Factions,
     org : {NoOrg} \cup Orgs,
     leader_admin : BOOLEAN, faculty_admin : BOOLEAN, department_admin : BOOLEAN]
    \cup { [present |-> FALSE, is_authenticated |-> FALSE, is_superuser |-> FALSE,
             is_staff |-> FALSE, leader |-> NoProfile, faculty |-> NoProfile,
             attendee |-> NoProfile, org |-> NoOrg, leader_admin |-> FALSE,
             faculty_admin |-> FALSE, department_admin |-> FALSE] }

\* None has no attribute: every getattr default applies
Attr(user, flag) == user.present /\ flag

\* the resolver with the attendee rule tried before the faculty rule
get_user_scope_filters_attendee_first(user, target) ==
    IF ~user.present \/ ~user.is_authenticated THEN {}
    ELSE IF user.is_superuser \/ user.is_staff THEN {}
    ELSE IF user.leader \in Factions THEN { <<"faction", user.leader>> }
    ELSE IF user.attendee \in Factions THEN { <<"faction", user.attendee>> }
    ELSE IF user.faculty \in Facilities
         THEN (IF target = "facility" THEN { <<"facility", user.faculty>> }
               ELSE { <<"week__facility_enrollment__facility", user.faculty>> })
    ELSE IF user.org \in Orgs
         THEN (IF target = "facility" THEN { <<"organization", user.org>> }
               ELSE { <<"faction__organization", user.org>> })
    ELSE {}

\* get_user_scope_filters(user, target): a mapping as a set of <<key, value>>
get_user_scope_filters(user, target) ==
    IF ~user.present \/ ~user.is_authenticated THEN {}
    ELSE IF user.is_superuser \/ user.is_staff THEN {}
    ELSE IF user.leader \in Factions THEN { <<"faction", user.leader>> }
    ELSE IF user.faculty \in Facilities
         THEN (IF target = "facility" THEN { <<"facility", user.faculty>> }
               ELSE { <<"week__facility_enrollment__facility", user.faculty>> })
    ELSE IF user.attendee \in Factions THEN { <<"faction", user.attendee>> }
    ELSE IF user.org \in Orgs
         THEN (IF target = "facility" THEN { <<"organization", user.org>> }
               ELSE { <<"faction__organization", user.org>> })
    ELSE {}

user_can_unscope(user) ==
    \/ Attr(user, user.is_superuser)
    \/ Attr(user, user.is_staff)
    \/ user.leader_admin
    \/ user.faculty_admin
    \/ user.department_admin

\* the FactionEnrollment table: one enrollment per faction and facility
FactionOrg(faction) == ((faction - 1) % NumOrgs) + 1
Enrollment(faction, facility) == [faction |-> faction, facility |-> facility]
Enrollments == { Enrollment(f, x) : f \in Factions, x \in Facilities }

\* the value of a lookup path on an enrollment
Lookup(record, key) ==
    IF key = "faction" THEN record.faction
    ELSE IF key = "week__facility_enrollment__facility" THEN record.facility
    ELSE IF key = "faction__organization" THEN FactionOrg(record.faction)
    ELSE 0

\* qs.filter(**mapping)
qs_filter(qs, mapping) ==
    { record \in qs : \A kv \in mapping : Lookup(record, kv[1]) = kv[2] }

\* filters.get("unscoped"): absent, False or True
UnscopedValues == { "absent", "False", "True" }
truthy(value) == value = "True"

\* apply_scope that does not ask whether the report allows an unscoped view
apply_scope_any_report(allow_unscoped, qs, user, unscoped) ==
    IF user_can_unscope(user) /\ truthy(unscoped) THEN qs
    ELSE IF get_user_scope_filters(user, "faction") # {}
         THEN qs_filter(qs, get_user_scope_filters(user, "faction"))
         ELSE qs

\* BaseReport.apply_scope
apply_scope(allow_unscoped, qs, user, unscoped) ==
    IF allow_unscoped /\ user_can_unscope(user) /\ truthy(unscoped) THEN qs
    ELSE IF get_user_scope_filters(user, "faction") # {}
         THEN qs_filter(qs, get_user_scope_filters(user, "faction"))
         ELSE qs

Targets == { "faction", "facility" }
\* the whole table, or the enrollments of one facility (a facility_slug filter)
QuerySets == { Enrollments, {r \in Enrollments : r.facility = 1} }

\* the user of a request to the built-in reports, with the last call made for
\* that user and what it returned
ScopeCall(user, call, target, allow_unscoped, unscoped, qs, mapping, rows) ==
    [user |-> user, call |-> call, target |-> target,
     allow_unscoped |-> allow_unscoped, unscoped |-> unscoped, qs |-> qs,
     mapping |-> mapping, rows |-> rows]

\* no request to the built-in reports is under way
NoScope == [call |-> "none"]

\* a call get_user_scope_filters(user, target=target)
ResolveScope(target) ==
    /\ scope.call = "none"
    /\ scope' = [scope EXCEPT
                    !.call = "resolve", !.target = target,
                    !.mapping = get_user_scope_filters(scope.user, target)]
    /\ UNCHANGED <<templates, generated, request, response, output>>

\* a call report.apply_scope(qs, user, filters)
ApplyScope(allow_unscoped, unscoped, qs) ==
    /\ scope.call = "none"
    /\ scope' = [scope EXCEPT
                    !.call = "apply", !.allow_unscoped = allow_unscoped,
                    !.unscoped = unscoped, !.qs = qs,
                    !.rows = apply_scope(allow_unscoped, qs, scope.user, unscoped)]
    /\ UNCHANGED <<templates, generated, request, response, output>>

NextScope ==
    \/ \E target \in Targets : ResolveScope(target)
    \/ \E allow_unscoped \in BOOLEAN, unscoped \in UnscopedValues, qs \in QuerySets :
           ApplyScope(allow_unscoped, unscoped, qs)

\* ------------------------------------------------------ built-in reports
\* a filter key that the filters mapping does not hold
PyAbsent == [t |-> "absent", n |-> 0, s |-> <<>>]

\* python truth of a filter value: None, "" and 0 are falsy
py_truthy(v) == (v.t = "str" /\ v.s # <<>>) \/ (v.t = "int" /\ v.n # 0)

\* filters.get(key)
filters_get(v) == IF v.t = "absent" THEN PyNoneValue ELSE v

\* the decimal numeral of a number below one hundred
Numeral(n) ==
    IF n < 10 THEN <<Digits[n + 1]>>
    ELSE <<Digits[(n \div 10) + 1], Digits[(n % 10) + 1]>>

FactionSlug(f) == <<"faction-">> \o Numeral(f)
FacilitySlug(x) == <<"facility-">> \o Numeral(x)
FactionName(f) == <<"Faction", SPACE>> \o Numeral(f)
FacilityName(x) == <<"Facility", SPACE>> \o Numeral(x)

\* the FactionEnrollment rows of the database, pk giving the source order:
\* one enrollment per faction and facility, then a second enrollment of the
\* first faction at the first facility; every second one has no quarters
TableSize == NumFactions * NumFacilities + 1
FactionEnrollment(pk) ==
    LET i == (pk - 1) % (NumFactions * NumFacilities)
    IN  [pk |-> pk,
         faction |-> (i % NumFactions) + 1,
         facility |-> (i \div NumFactions) + 1,
         week |-> pk,
         quarters |-> IF pk % 2 = 0 THEN 0 ELSE pk,
         start |-> (pk % 2) + 1,
         end |-> (pk % 2) + 1 + ((pk \div 2) % 2)]
FactionEnrollments == { FactionEnrollment(pk) : pk \in 1..TableSize }

\* FactionEnrollmentReport.columns
columns ==
    << <<"faction__name", "Faction">>,
       <<"week__facility_enrollment__facility__name", "Facility">>,
       <<"week__name", "Week">>,
       <<"quarters__name", "Quarters">>,
       <<"start", "Start">>,
       <<"end", "End">> >>

\* _get_nested_attr(obj, attr_path): the value at the path, None where an
\* attribute on the way is missing (quarters is None)
_get_nested_attr(obj, attr_path) ==
    IF attr_path = "faction__name" THEN PyStr(FactionName(obj.faction))
    ELSE IF attr_path = "week__facility_enrollment__facility__name"
         THEN PyStr(FacilityName(obj.facility))
    ELSE IF attr_path = "week__name" THEN PyStr(<<"Week", SPACE>> \o Numeral(obj.week))
    ELSE IF attr_path = "quarters__name"
         THEN (IF obj.quarters = 0 THEN PyNoneValue
               ELSE PyStr(<<"Quarters", SPACE>> \o Numeral(obj.quarters)))
    ELSE IF attr_path = "start" THEN PyInt(obj.start)
    ELSE IF attr_path = "end" THEN PyInt(obj.end)
    ELSE PyNoneValue

RECURSIVE Iterate(_)
\* the records of a queryset in the order the database yields them
Iterate(qs) ==
    IF qs = {} THEN <<>>
    ELSE LET first == CHOOSE r \in qs : \A o \in qs : r.pk <= o.pk
         IN  <<first>> \o Iterate(qs \ {first})

\* queryset_to_rows(qs, columns)
queryset_to_rows(qs, cols) ==
    LET objs == Iterate(qs)
    IN  [i \in 1..Len(objs) |->
            [j \in 1..Len(cols) |->
                Item(cols[j][2], _get_nested_attr(objs[i], cols[j][1]))]]

\* the filters of a built-in report request
ReportFilters(faction_slug, facility_slug, start, end, unscoped) ==
    [faction_slug |-> faction_slug, facility_slug |-> facility_slug,
     start |-> start, end |-> end, unscoped |-> unscoped]

\* get_queryset with the start predicate applied to the end field
get_queryset_start_on_end(filters) ==
    LET faction_slug == filters_get(filters.faction_slug)
        facility_slug == filters_get(filters.facility_slug)
        start == filters_get(filters.start)
        end == filters_get(filters.end)
    IN  { r \in FactionEnrollments :
            /\ py_truthy(faction_slug) => FactionSlug(r.faction) = faction_slug.s
            /\ py_truthy(facility_slug) => FacilitySlug(r.facility) = facility_slug.s
            /\ py_truthy(start) => r.end >= start.n
            /\ py_truthy(end) => r.end <= end.n }

\* FactionEnrollmentReport.get_queryset
get_queryset(filters) ==
    LET faction_slug == filters_get(filters.faction_slug)
        facility_slug == filters_get(filters.facility_slug)
        start == filters_get(filters.start)
        end == filters_get(filters.end)
    IN  { r \in FactionEnrollments :
            /\ py_truthy(faction_slug) => FactionSlug(r.faction) = faction_slug.s
            /\ py_truthy(facility_slug) => FacilitySlug(r.facility) = facility_slug.s
            /\ py_truthy(start) => r.start >= start.n
            /\ py_truthy(end) => r.end <= end.n }

\* BaseReport.get_rows, for a report that declares allow_unscoped
get_rows(allow_unscoped, user, filters) ==
    queryset_to_rows(
        apply_scope(allow_unscoped, get_queryset(filters), user, filters.unscoped),
        columns)

\* the users of the built-in report views. The resolver and user_can_unscope
\* read nothing else of a user who is not authenticated or who is staff, so
\* one user stands for each; one administrative capability stands for the
\* three that user_can_unscope reads alike
ReportUser(is_authenticated, is_staff, leader, faculty, attendee, org, leader_admin) ==
    [present |-> TRUE, is_authenticated |-> is_authenticated,
     is_superuser |-> FALSE, is_staff |-> is_staff,
     leader |-> leader, faculty |-> faculty, attendee |-> attendee, org |-> org,
     leader_admin |-> leader_admin, faculty_admin |-> FALSE,
     department_admin |-> FALSE]
ReportUsers ==
    { ReportUser(TRUE, FALSE, leader, faculty, attendee, org, leader_admin) :
        leader \in {NoProfile} \cup Factions,
        faculty \in {NoProfile} \cup Facilities,
        attendee \in {NoProfile} \cup Factions,
        org \in {NoOrg} \cup Orgs,
        leader_admin \in BOOLEAN }
    \cup { ReportUser(TRUE, TRUE, 1, NoProfile, NoProfile, 1, FALSE),
           ReportUser(FALSE, FALSE, 1, NoProfile, NoProfile, 1, FALSE) }

SlugInputs(slugs) == { PyAbsent, PyStr(<<>>) } \cup { PyStr(s) : s \in slugs }
DateInputs == { PyAbsent, PyNoneValue, PyInt(2) }
FilterInputs ==
    { ReportFilters(faction_slug, facility_slug, start, end, unscoped) :
        faction_slug \in SlugInputs({ FactionSlug(f) : f \in Factions }),
        facility_slug \in SlugInputs({ FacilitySlug(x) : x \in Facilities }),
        start \in DateInputs, end \in DateInputs, unscoped \in UnscopedValues }

\* a call report.get_rows(user, filters) to come, and once made, its rows
RowsCall(user, filters) ==
    [call |-> "none", user |-> user, filters |-> filters,
     allow_unscoped |-> FALSE, rows |-> <<>>]

\* report.get_rows(user, filters) of a built-in report
GetRows(allow_unscoped) ==
    /\ scope.call = "none"
    /\ scope' = [scope EXCEPT
                    !.call = "rows", !.allow_unscoped = allow_unscoped,
                    !.rows = get_rows(allow_unscoped, scope.user, scope.filters)]
    /\ UNCHANGED <<templates, generated, request, response, output>>

NextRows == \E allow_unscoped \in BOOLEAN : GetRows(allow_unscoped)

\* --------------------------------------------------------------- views
\* ReportTemplate: the fields the views and the access check read or write
Template(created_by, name) ==
    [created_by |-> created_by, available_to |-> {}, name |-> name]

TemplateExists(t) == t \in 1..Len(templates)

\* ReportTemplate.is_accessible_by(user)
is_accessible_by(report, user) ==
    user = report.created_by \/ user \in report.available_to

\* the access check asks only for the owner
has_report_access_owner_only(report, user) == user = report.created_by

\* ReportAccessMixin.has_report_access
has_report_access(report, user) == is_accessible_by(report, user)

TemplateNames == { <<"X">>, <<"X", COMMA, SPACE, "X">> }

\* the filters texts a generate request may post
RAGGED_ROWS == "{\"rows\": [{\"name\": \"X\"}, {\"name\": \"X\", \"value\": 1}]}"
FilterTexts == { "", "{}", "{bad", RAGGED_ROWS }
\* the output_format values a generate request may post
PostedFormats == { CSV, PDF, <<"m", "a", "r", "k", "d", "o", "w", "n">> }
\* ReportGenerationForm.output_format choices
FormatChoices == { CSV, PDF, EXCEL }

\* json.loads on the texts above: the parsed value, or JSONDecodeError
json_loads(text) ==
    IF text = "{}" THEN [ok |-> TRUE, value |-> FiltersDict(FALSE, <<>>)]
    ELSE IF text = RAGGED_ROWS
         THEN [ok |-> TRUE,
               value |-> FiltersDict(TRUE,
                   << <<Item("name", PyStr(<<"X">>))>>,
                      <<Item("name", PyStr(<<"X">>)), Item("value", PyInt(1))>> >>)]
    ELSE [ok |-> FALSE, value |-> FiltersOther]

Respond(status, body) == [status |-> status, body |-> body]

NoResponse == Respond(0, "none")

\* the request being answered, with what was true when it arrived (existed,
\* allowed) and what it did (created, changed); "raises" names the step after
\* output generation that fails in this request, if any
Request(view, user, template, method, filters_raw, fmt, raises, created, changed) ==
    [view |-> view, user |-> user, template |-> template, method |-> method,
     filters_raw |-> filters_raw, fmt |-> fmt, raises |-> raises,
     existed |-> TemplateExists(template),
     allowed |-> /\ TemplateExists(template)
                 /\ \/ user = templates[template].created_by
                    \/ user \in templates[template].available_to,
     created |-> created, changed |-> changed]

NoRequest ==
    [view |-> "none", user |-> Anonymous, template |-> 0, method |-> "GET",
     filters_raw |-> "", fmt |-> <<>>, raises |-> "nothing",
     existed |-> FALSE, allowed |-> FALSE, created |-> 0, changed |-> FALSE]

Outcome(status, body, records) ==
    [status |-> status, body |-> body, generated |-> records]

GeneratedReport(t, user, filters, file) ==
    [name |-> templates[t].name, template |-> t, generated_by |-> user,
     filters_applied |-> filters,
     output_file |-> [stem |-> file.stem, extension |-> file.extension]]

\* the steps of form_valid after output generation that may raise
Raises == { "nothing", "create", "url" }

\* GenerateReportView.form_valid
form_valid(u, t, filters_raw, fmt, raises) ==
    LET parsed == json_loads(IF filters_raw = "" THEN "{}" ELSE filters_raw)
        file == generate_report_output(templates[t].name, parsed.value, Format(fmt))
        created == Append(generated, GeneratedReport(t, u, parsed.value, file))
    IN  IF ~parsed.ok THEN Outcome(400, "Filters must be valid JSON.", generated)
        ELSE IF ~file.ok THEN Outcome(500, "Error generating report", generated)
        ELSE IF raises = "create" THEN Outcome(500, "Error generating report", generated)
        ELSE IF raises = "url" THEN Outcome(500, "Error generating report", created)
        ELSE Outcome(200, "Report generated successfully", created)

\* the dispatch without its access check
dispatch_unchecked(u, t, method, filters_raw, fmt, raises) ==
    IF ~TemplateExists(t) THEN Outcome(404, "Not found", generated)
    ELSE IF u = Anonymous THEN Outcome(302, "login", generated)
    ELSE IF method = "GET" THEN Outcome(200, "form", generated)
    ELSE IF fmt \notin FormatChoices THEN Outcome(200, "form", generated)
    ELSE form_valid(u, t, filters_raw, fmt, raises)

\* GenerateReportView.dispatch, with the dispatch of LoginRequiredMixin and
\* FormView behind it
dispatch(u, t, method, filters_raw, fmt, raises) ==
    IF ~TemplateExists(t) THEN Outcome(404, "Not found", generated)
    ELSE IF ~is_accessible_by(templates[t], u)
         THEN Outcome(403, "Access denied", generated)
    ELSE IF u = Anonymous THEN Outcome(302, "login", generated)
    ELSE IF method = "GET" THEN Outcome(200, "form", generated)
    ELSE IF fmt \notin FormatChoices THEN Outcome(200, "form", generated)
    ELSE form_valid(u, t, filters_raw, fmt, raises)

\* one generate request, answered as a whole; the handler is synchronous and
\* requests are independent, so a behaviour follows a single request against
\* the database it meets
GenerateReportView(u, t, method, filters_raw, fmt, raises) ==
    /\ request = NoRequest
    /\ \E out \in { dispatch(u, t, method, filters_raw, fmt, raises) } :
           /\ generated' = out.generated
           /\ response' = Respond(out.status, out.body)
           /\ request' = Request("generate", u, t, method, filters_raw, fmt, raises,
                                 Len(out.generated) - Len(generated), FALSE)
    /\ UNCHANGED <<templates, output, scope>>

\* the object lookup without the access check
get_object_unchecked(u, t) == [ok |-> TRUE, report |-> t]

\* ReportAccessMixin.get_object: the template, or PermissionDenied
get_object(u, t) ==
    IF has_report_access(templates[t], u)
    THEN [ok |-> TRUE, report |-> t]
    ELSE [ok |-> FALSE, report |-> 0]

TemplatesOutcome(status, body, records) ==
    [status |-> status, body |-> body, templates |-> records]

\* UpdateReportTemplateView: the login check, the object lookup, then the form
update_view(u, t, method, name) ==
    IF u = Anonymous THEN TemplatesOutcome(302, "login", templates)
    ELSE IF ~TemplateExists(t) THEN TemplatesOutcome(404, "Not found", templates)
    ELSE IF ~get_object(u, t).ok
         THEN TemplatesOutcome(403, "PermissionDenied", templates)
    ELSE IF method = "GET" \/ name = <<>>
         THEN TemplatesOutcome(200, "form", templates)
    ELSE TemplatesOutcome(302, "saved", [templates EXCEPT ![t].name = name])

UpdateReportTemplateView(u, t, method, name) ==
    /\ \E out \in { update_view(u, t, method, name) } :
           /\ templates' = out.templates
           /\ response' = Respond(out.status, out.body)
           /\ request' = Request("update", u, t, method, "", <<>>, "nothing",
                                 0, out.templates # templates)
    /\ UNCHANGED <<generated, output, scope>>

\* CreateReportTemplateView: form.instance.created_by = request.user
create_view(u, method, name) ==
    IF u = Anonymous THEN TemplatesOutcome(302, "login", templates)
    ELSE IF method = "GET" \/ name = <<>>
         THEN TemplatesOutcome(200, "form", templates)
    ELSE TemplatesOutcome(302, "saved", Append(templates, Template(u, name)))

CreateReportTemplateView(u, method, name) ==
    /\ Len(templates) < MaxTemplates
    /\ \E out \in { create_view(u, method, name) } :
           /\ templates' = out.templates
           /\ response' = Respond(out.status, out.body)
           /\ request' = Request("create", u, 0, method, "", <<>>, "nothing",
                                 0, out.templates # templates)
    /\ UNCHANGED <<generated, output, scope>>

\* no member: the available_to column of a joined row of a template shared
\* with nobody
Null == 0

\* the rows of ReportTemplate LEFT OUTER JOIN available_to for one template
JoinRows(t) ==
    IF templates[t].available_to = {} THEN { [id |-> t, member |-> Null] }
    ELSE { [id |-> t, member |-> m] : m \in templates[t].available_to }

\* filter(Q(created_by=user) | Q(available_to=user)): for every template the
\* number of joined rows that pass
list_filter(user) ==
    [t \in 1..Len(templates) |->
        Cardinality({ row \in JoinRows(t) :
                        templates[t].created_by = user \/ row.member = user })]

\* .distinct()
distinct(result) == [t \in DOMAIN result |-> IF result[t] > 0 THEN 1 ELSE 0]

\* the queryset without distinct()
get_queryset_without_distinct(user) == list_filter(user)

\* ListReportsView.get_queryset: how often each template is in the result
ListReportsView_get_queryset(user) == distinct(list_filter(user))

\* ListReportsView: the login check, then ListView's get
list_view(u, method) ==
    IF u = Anonymous THEN [status |-> 302, body |-> "login"]
    ELSE IF method # "GET" THEN [status |-> 405, body |-> "Method Not Allowed"]
    ELSE [status |-> 200, body |-> "reports",
          reports |-> ListReportsView_get_queryset(u)]

\* one request to the list endpoint, answered as a whole
ListReportsView(u, method) ==
    /\ request = NoRequest
    /\ response' = list_view(u, method)
    /\ request' = Request("list", u, 0, method, "", <<>>, "nothing", 0, FALSE)
    /\ UNCHANGED <<templates, generated, output, scope>>

\* template.available_to.add(user)
AddAvailableTo(t, user) ==
    /\ TemplateExists(t)
    /\ templates' = [templates EXCEPT ![t].available_to = @ \cup {user}]
    /\ UNCHANGED <<generated, request, response, output, scope>>

Methods == { "GET", "POST" }

Next ==
    \/ \E u \in Requesters, method \in Methods, name \in TemplateNames \cup {<<>>} :
           CreateReportTemplateView(u, method, name)
    \/ \E t \in TemplateIds, user \in Users : AddAvailableTo(t, user)
    \/ \E u \in Requesters, t \in TemplateIds, method \in Methods,
          name \in TemplateNames \cup {<<>>} :
           UpdateReportTemplateView(u, t, method, name)

Init ==
    /\ templates = <<>>
    /\ generated = <<>>
    /\ request = NoRequest
    /\ response = NoResponse
    /\ output = NoOutput
    /\ scope = NoScope

\* templates are created, shared and edited
Spec == Init /\ [][Next]_vars

\* the template tables that creating and sharing lead to
TemplateRecords ==
    [created_by : Users, available_to : SUBSET Users,
     name : { <<"X", COMMA, SPACE, "X">> }]
TemplateTables == UNION { [1..n -> TemplateRecords] : n \in 0..MaxTemplates }

InitGenerate ==
    /\ templates \in TemplateTables
    /\ generated = <<>>
    /\ request = NoRequest
    /\ response = NoResponse
    /\ output = NoOutput
    /\ scope = NoScope

NextGenerate ==
    \E u \in Requesters, t \in TemplateIds, method \in Methods,
       filters_raw \in FilterTexts, fmt \in PostedFormats, raises \in Raises :
        GenerateReportView(u, t, method, filters_raw, fmt, raises)

\* a generate request against any template table
SpecGenerate == InitGenerate /\ [][NextGenerate]_vars

\* the template tables the list endpoint may meet
ListedTables == UNION { [1..n -> TemplateRecords] : n \in 0..MaxListed }

InitList ==
    /\ templates \in ListedTables
    /\ generated = <<>>
    /\ request = NoRequest
    /\ response = NoResponse
    /\ output = NoOutput
    /\ scope = NoScope

NextList == \E u \in Requesters, method \in Methods : ListReportsView(u, method)

\* a request to the list endpoint against any template table
SpecList == InitList /\ [][NextList]_vars

InitOutput ==
    /\ templates = <<>>
    /\ generated = <<>>
    /\ request = NoRequest
    /\ response = NoResponse
    /\ output \in { OutputCall(name, filters, format) :
                      name \in ReportNames, filters \in FiltersInputs,
                      format \in FormatInputs }
    /\ scope = NoScope

\* generate_report_output on any input
SpecOutput == InitOutput /\ [][NextOutput]_vars

InitScope ==
    /\ templates = <<>>
    /\ generated = <<>>
    /\ request = NoRequest
    /\ response = NoResponse
    /\ output = NoOutput
    /\ scope \in { ScopeCall(user, "none", "faction", FALSE, "absent", {}, {}, {}) :
                     user \in ScopeUsers }

\* the scope resolver and apply_scope for any user
SpecScope == InitScope /\ [][NextScope]_vars

InitRows ==
    /\ templates = <<>>
    /\ generated = <<>>
    /\ request = NoRequest
    /\ response = NoResponse
    /\ output = NoOutput
    /\ scope \in { RowsCall(user, filters) :
                     user \in ReportUsers, filters \in FilterInputs }

\* get_rows of a built-in report for any user and filters
SpecRows == InitRows /\ [][NextRows]_vars

\* ================================================================ claims
\* the owner-or-shared relation, written out on the template's fields
OwnerOrShared(t, u) ==
    u = templates[t].created_by \/ u \in templates[t].available_to

C2_DeniedGenerateCreatesNothing ==
    (request.view = "generate" /\ request.existed /\ ~request.allowed)
    => (/\ response.status = 403
        /\ response.body = "Access denied"
        /\ request.created = 0)

\* a logged-in stranger posted well-formed input and was denied
C2_Witness ==
    /\ request.view = "generate"
    /\ request.user \in Users
    /\ request.existed
    /\ ~request.allowed
    /\ request.method = "POST"
    /\ request.fmt = CSV
    /\ request.filters_raw = "{}"
    /\ request.raises = "nothing"
    /\ response.status = 403
    /\ generated = <<>>

\* C3: for a generate request that passes the access check, a record is
\* created exactly when the success response is returned, and then exactly
\* one; a filters text that is not valid JSON answers 400, a raise in output
\* generation or in a later step answers 500, and a 400 or 500 answer leaves
\* the GeneratedReport records unchanged.
C3_RecordIffSuccess ==
    (request.view = "generate" /\ request.existed /\ request.allowed)
    => (/\ (request.created > 0) <=> (response.status = 200
                /\ response.body = "Report generated successfully")
        /\ request.created \in {0, 1}
        /\ (request.method = "POST" /\ request.fmt \in FormatChoices
              /\ request.filters_raw = "{bad")
             => response.status = 400
        /\ (request.method = "POST" /\ request.fmt \in FormatChoices
              /\ request.filters_raw \in {"", "{}"}
              /\ request.raises # "nothing")
             => response.status = 500
        /\ response.status \in {400, 500} => request.created = 0)

\* C6: when a logged-in user who is neither owner nor in available_to of an
\* existing template requests its edit view, the object lookup fails with
\* PermissionDenied and no field of a template changes; for the owner or a
\* member of available_to the lookup returns the template.
C6_EditDeniedForStrangers ==
    (request.view = "update" /\ request.user \in Users /\ request.existed)
    => IF request.allowed
       THEN /\ response.status \in {200, 302}
            /\ get_object(request.user, request.template)
                   = [ok |-> TRUE, report |-> request.template]
       ELSE /\ response.status = 403
            /\ response.body = "PermissionDenied"
            /\ ~request.changed

\* a stranger posted a new name and the edit was refused
C6_Witness ==
    /\ request.view = "update"
    /\ request.user \in Users
    /\ request.existed
    /\ ~request.allowed
    /\ request.method = "POST"
    /\ response.status = 403

\* ------------------------------------------------------------ C4, C5
RuleAbsent(user) == ~user.present \/ ~user.is_authenticated
RuleStaff(user) == user.is_superuser \/ user.is_staff
RuleLeader(user) == user.leader >= 1
RuleFaculty(user) == user.faculty >= 1
RuleAttendee(user) == user.attendee >= 1
RuleOrg(user) == user.org >= 1

\* C4: get_user_scope_filters returns the mapping of the first matching rule
\* in the order absent/unauthenticated, superuser/staff, leader with faction,
\* faculty with facility, attendee with faction, organization, else empty; a
\* profile without faction or facility does not match its rule.
C4_FirstMatchingRule ==
    scope.call = "resolve" =>
        LET user == scope.user
            facility_target == scope.target = "facility"
            m == scope.mapping
        IN  /\ RuleAbsent(user) => m = {}
            /\ (~RuleAbsent(user) /\ RuleStaff(user)) => m = {}
            /\ (~RuleAbsent(user) /\ ~RuleStaff(user) /\ RuleLeader(user))
                 => m = { <<"faction", user.leader>> }
            /\ (~RuleAbsent(user) /\ ~RuleStaff(user) /\ ~RuleLeader(user)
                  /\ RuleFaculty(user))
                 => m = { <<IF facility_target THEN "facility"
                            ELSE "week__facility_enrollment__facility",
                            user.faculty>> }
            /\ (~RuleAbsent(user) /\ ~RuleStaff(user) /\ ~RuleLeader(user)
                  /\ ~RuleFaculty(user) /\ RuleAttendee(user))
                 => m = { <<"faction", user.attendee>> }
            /\ (~RuleAbsent(user) /\ ~RuleStaff(user) /\ ~RuleLeader(user)
                  /\ ~RuleFaculty(user) /\ ~RuleAttendee(user) /\ RuleOrg(user))
                 => m = { <<IF facility_target THEN "organization"
                            ELSE "faction__organization", user.org>> }
            /\ (~RuleAbsent(user) /\ ~RuleStaff(user) /\ ~RuleLeader(user)
                  /\ ~RuleFaculty(user) /\ ~RuleAttendee(user) /\ ~RuleOrg(user))
                 => m = {}

\* a leader profile without faction falls through to the faculty rule, which
\* wins over the attendee rule and the organization
C4_Witness ==
    /\ scope.call = "resolve"
    /\ scope.target = "faction"
    /\ scope.user.present /\ scope.user.is_authenticated
    /\ ~scope.user.is_superuser /\ ~scope.user.is_staff
    /\ scope.user.leader = Unassigned
    /\ scope.user.faculty = 2
    /\ scope.user.attendee = 1
    /\ scope.user.org = 1
    /\ scope.mapping = { <<"week__facility_enrollment__facility", 2>> }

\* C5: apply_scope returns the query unrestricted, without asking the scope
\* resolver, only when the report allows unscoped views, the user is
\* superuser, staff, leader-admin, faculty-admin or department-admin, and
\* filters["unscoped"] is truthy, all three together; otherwise the query is
\* restricted by get_user_scope_filters(user, target="faction") and is left
\* as it is only when that mapping is empty.
C5_UnscopeNeedsAllThree ==
    scope.call = "apply" =>
        LET user == scope.user
            admin == \/ (user.present /\ user.is_superuser)
                     \/ (user.present /\ user.is_staff)
                     \/ user.leader_admin \/ user.faculty_admin
                     \/ user.department_admin
            bypass == scope.allow_unscoped /\ admin /\ scope.unscoped = "True"
            m == get_user_scope_filters(user, "faction")
        IN  IF bypass THEN scope.rows = scope.qs
            ELSE scope.rows =
                   { r \in scope.qs :
                       /\ \A f \in Factions : <<"faction", f>> \in m => r.faction = f
                       /\ \A x \in Facilities :
                            <<"week__facility_enrollment__facility", x>> \in m
                              => r.facility = x
                       /\ \A o \in Orgs :
                            <<"faction__organization", o>> \in m
                              => FactionOrg(r.faction) = o }

\* a leader-admin asks for an unscoped view of a report that does not allow
\* it, and receives only the own faction's enrollments
C5_Witness ==
    /\ scope.call = "apply"
    /\ ~scope.allow_unscoped
    /\ scope.unscoped = "True"
    /\ scope.user.present /\ scope.user.is_authenticated
    /\ ~scope.user.is_superuser /\ ~scope.user.is_staff
    /\ scope.user.leader_admin
    /\ scope.user.leader = 1
    /\ scope.qs = Enrollments
    /\ scope.rows = { r \in Enrollments : r.faction = 1 }
    /\ scope.rows # scope.qs

\* -------------------------------------------------------- C7 .. C10
CasePairs ==
    { <<"C", "c">>, <<"S", "s">>, <<"V", "v">>, <<"E", "e">>, <<"X", "x">>,
      <<"L", "l">>, <<"P", "p">>, <<"D", "d">>, <<"F", "f">> }
SameLetter(c, d) == c = d \/ <<c, d>> \in CasePairs \/ <<d, c>> \in CasePairs

\* word is equal to the string s, ignoring case
EqualsIgnoringCase(s, word) ==
    /\ Len(s) = Len(word)
    /\ \A i \in 1..Len(word) : SameLetter(s[i], word[i])

\* the format argument is a string equal to word, ignoring case
FormatIs(word) == ~output.format.none /\ EqualsIgnoringCase(output.format.s, word)

\* the format argument is None or the empty string
FormatMissing == output.format.none \/ output.format.s = <<>>

\* filters is a mapping with a "rows" entry
HasRowsEntry == output.filters.is_dict /\ output.filters.has_rows

\* some row of the "rows" entry has a key that its first row lacks
ExtraKeys(rows) ==
    \E i \in 1..Len(rows) : \E j \in 1..Len(rows[i]) :
        \A k \in 1..Len(rows[1]) : rows[1][k].k # rows[i][j].k

\* C7 as stated: "csv", "excel" or "pdf" (ignoring case) yields an artifact
\* with extension csv, xlsx or pdf; any other value of output_format fails
\* with the unsupported-format value error and yields no artifact.
C7_FormatDispatch ==
    output.called =>
        /\ FormatIs(CSV) => (output.result.ok /\ output.result.extension = "csv")
        /\ FormatIs(EXCEL) => (output.result.ok /\ output.result.extension = "xlsx")
        /\ FormatIs(PDF) => (output.result.ok /\ output.result.extension = "pdf")
        /\ (~FormatIs(CSV) /\ ~FormatIs(EXCEL) /\ ~FormatIs(PDF))
             => (/\ ~output.result.ok
                 /\ output.result.error = "ValueError: Unsupported format"
                 /\ output.result.payload = <<>>)

\* C7 amended: an absent (None) or empty output_format counts as "csv"; the
\* format, ignoring case, selects the extension csv, xlsx or pdf, the pdf
\* artifact is always produced and the csv or xlsx artifact is produced unless
\* a row has a key that the first row lacks (then the csv writer raises a
\* ValueError); every other string fails with the unsupported-format
\* ValueError and yields no artifact.
C7_FormatDispatchAmended ==
    output.called =>
        LET encodable == ~(HasRowsEntry /\ output.filters.rows # <<>>
                             /\ ExtraKeys(output.filters.rows))
            r == output.result
        IN  /\ (FormatIs(CSV) \/ FormatMissing)
                 => IF encodable THEN r.ok /\ r.extension = "csv"
                    ELSE ~r.ok /\ r.error # "ValueError: Unsupported format"
            /\ FormatIs(EXCEL)
                 => IF encodable THEN r.ok /\ r.extension = "xlsx"
                    ELSE ~r.ok /\ r.error # "ValueError: Unsupported format"
            /\ FormatIs(PDF) => (r.ok /\ r.extension = "pdf")
            /\ (~FormatIs(CSV) /\ ~FormatIs(EXCEL) /\ ~FormatIs(PDF)
                  /\ ~FormatMissing)
                 => (/\ ~r.ok
                     /\ r.error = "ValueError: Unsupported format"
                     /\ r.payload = <<>>)

\* "Excel" in mixed case is dispatched to the tab-delimited encoder
C7_Witness ==
    /\ output.called
    /\ output.format = Format(<<"E", "x", "c", "e", "l">>)
    /\ output.result.ok
    /\ output.result.extension = "xlsx"
    /\ Contains(output.result.payload, TAB)

\* the rows the claim says are encoded
ClaimedRows ==
    IF HasRowsEntry THEN output.filters.rows
    ELSE << <<Item("name", PyStr(output.name)), Item("value", PyInt(1))>> >>

\* C8 as stated: the artifact encodes exactly the rows of the "rows" entry
\* when filters is a mapping that has one, and the single default row
\* {name: report.name, value: 1} otherwise.
C8_RowSource ==
    (output.called /\ output.result.ok) =>
        output.result.payload =
            IF output.result.extension = "pdf" THEN _pdf_placeholder(ClaimedRows)
            ELSE IF output.result.extension = "xlsx"
                 THEN _serialize_rows(ClaimedRows, TAB).payload
                 ELSE _serialize_rows(ClaimedRows, COMMA).payload

\* C9 as stated: with filters {"rows": []} and format "csv" or "excel" the
\* payload is empty, zero bytes and no header line.
C9_EmptyRowsEmptyPayload ==
    (/\ output.called
     /\ output.filters = FiltersDict(TRUE, <<>>)
     /\ (FormatIs(CSV) \/ FormatIs(EXCEL)))
    => (output.result.ok /\ output.result.payload = <<>>)

\* a line of fields joined by the delimiter
Line(fields, delimiter) == Join(fields, <<delimiter>>) \o <<CRLF>>

\* the text of a value: empty for None
ValueText(v) == IF v.t = "none" THEN <<>> ELSE str(v)

\* the value of key in row as text, empty when the row lacks the key
ValueAt(row, key) ==
    IF \E j \in 1..Len(row) : row[j].k = key
    THEN ValueText(row[CHOOSE j \in 1..Len(row) : row[j].k = key].v)
    ELSE <<>>

\* a field as the csv dialect writes it: in double quotes, inner quotes
\* doubled, when it holds the delimiter, a quote or a line break, or when it
\* is the empty only field of its line
WrittenField(text, delimiter, only) ==
    IF \/ \E i \in 1..Len(text) : text[i] \in {delimiter, QUOTE, CRLF, LF}
       \/ (only /\ text = <<>>)
    THEN <<QUOTE>>
         \o Concat([i \in 1..Len(text) |->
                IF text[i] = QUOTE THEN <<QUOTE, QUOTE>> ELSE <<text[i]>>])
         \o <<QUOTE>>
    ELSE text

WrittenLines(rows, delimiter) ==
    Line([k \in 1..Len(rows[1]) |->
                  WrittenField(<<rows[1][k].k>>, delimiter, Len(rows[1]) = 1)],
              delimiter)
    \o Concat([i \in 1..Len(rows) |->
           Line([k \in 1..Len(rows[1]) |->
                         WrittenField(ValueAt(rows[i], rows[1][k].k), delimiter,
                                      Len(rows[1]) = 1)],
                     delimiter)])

ExampleRows == << <<Item("name", PyStr(<<"X">>)), Item("value", PyInt(1))>> >>
ExamplePayload == <<"name", COMMA, "value", CRLF, "X", COMMA, "1", CRLF>>

\* C10 as stated: for format "csv" and any non-empty row sequence the payload
\* is the header line of the first row's keys joined by commas, then exactly
\* one line per row in input order with that row's values in the header's
\* key order (each field as the csv dialect writes it); "excel" gives the
\* same lines with a tab for the comma.
C10_HeaderAndRowLines ==
    (output.called /\ HasRowsEntry /\ output.filters.rows # <<>>) =>
        /\ FormatIs(CSV)
             => (/\ output.result.ok
                 /\ output.result.payload = WrittenLines(output.filters.rows, COMMA))
        /\ FormatIs(EXCEL)
             => (/\ output.result.ok
                 /\ output.result.payload = WrittenLines(output.filters.rows, TAB))

\* C10 amended: for format "csv" and a non-empty sequence of rows none of
\* which has a key that the first row lacks, the payload is the header line
\* of the first row's keys joined by commas, then one line per row in input
\* order with that row's values in the header's key order, None and a missing
\* key written as an empty field, every line ended by CRLF; a field holding
\* the delimiter, a double quote or a line break is written in double quotes
\* with its quotes doubled, and an empty only field is written as two double
\* quotes. A row with a key the first row lacks makes the call fail with a
\* ValueError and no payload. Rows [{"name": "X", "value": 1}] give the lines
\* name,value and X,1. "excel" gives the same with a tab for the comma.
C10_HeaderAndRowLinesAmended ==
    (output.called /\ HasRowsEntry /\ output.filters.rows # <<>>) =>
        LET rows == output.filters.rows
            r == output.result
        IN  /\ FormatIs(CSV)
                 => IF ExtraKeys(rows) THEN ~r.ok /\ r.payload = <<>>
                    ELSE r.ok /\ r.payload = WrittenLines(rows, COMMA)
            /\ FormatIs(EXCEL)
                 => IF ExtraKeys(rows) THEN ~r.ok /\ r.payload = <<>>
                    ELSE r.ok /\ r.payload = WrittenLines(rows, TAB)
            /\ (FormatIs(CSV) /\ rows = ExampleRows) => r.payload = ExamplePayload

\* two rows with their keys in different orders and a value that holds a
\* comma: both lines follow the header's order, the value is quoted
C10_Witness ==
    /\ output.called
    /\ output.format = Format(CSV)
    /\ output.filters = FiltersDict(TRUE,
           << <<Item("name", PyStr(<<"X">>)), Item("value", PyInt(1))>>,
              <<Item("value", PyNoneValue), Item("name", PyStr(<<"a", COMMA, "b">>))>> >>)
    /\ output.result.ok
    /\ output.result.payload =
           <<"name", COMMA, "value", CRLF, "X", COMMA, "1", CRLF,
             QUOTE, "a", COMMA, "b", QUOTE, COMMA, CRLF>>

\* ------------------------------------------------------------------ C11
\* a filter key is given when the mapping holds a truthy value for it
Given(v) == v.t \notin {"absent", "none"} /\ v # PyStr(<<>>) /\ v # PyInt(0)

\* the record satisfies every predicate the filters supply
SatisfiesFilters(r, f) ==
    /\ Given(f.faction_slug) => FactionSlug(r.faction) = f.faction_slug.s
    /\ Given(f.facility_slug) => FacilitySlug(r.facility) = f.facility_slug.s
    /\ Given(f.start) => r.start >= f.start.n
    /\ Given(f.end) => r.end <= f.end.n

\* the record satisfies the restriction of the scope resolver's mapping
SatisfiesScope(r, user) ==
    \A kv \in get_user_scope_filters(user, "faction") : Lookup(r, kv[1]) = kv[2]

\* the row of a record: the six labels in column-definition order
RowOf(r) ==
    << Item("Faction", PyStr(FactionName(r.faction))),
       Item("Facility", PyStr(FacilityName(r.facility))),
       Item("Week", PyStr(<<"Week", SPACE>> \o Numeral(r.week))),
       Item("Quarters", IF r.quarters = 0 THEN PyNoneValue
                        ELSE PyStr(<<"Quarters", SPACE>> \o Numeral(r.quarters))),
       Item("Start", PyInt(r.start)),
       Item("End", PyInt(r.end)) >>

\* C11: FactionEnrollmentReport.get_rows(user, filters) returns one row per
\* enrollment record, in source order and with the keys in column-definition
\* order, for exactly the records that satisfy every supplied predicate
\* (faction_slug, facility_slug, start <= record.start, record.end <= end) and
\* the scope resolver's mapping; a key that is absent or falsy imposes no
\* predicate, whatever the other keys hold.
C11_RowsOfMatchingRecords ==
    (scope.call = "rows" /\ ~scope.allow_unscoped) =>
        LET matching == { r \in FactionEnrollments :
                            /\ SatisfiesFilters(r, scope.filters)
                            /\ SatisfiesScope(r, scope.user) }
        IN  /\ Len(scope.rows) = Cardinality(matching)
            /\ \A r \in matching :
                   scope.rows[Cardinality({ o \in matching : o.pk <= r.pk })] = RowOf(r)

\* a leader asks for one facility from a start date on, end left empty: the
\* rows are some but not all of the leader's faction's enrollments
C11_Witness ==
    /\ scope.call = "rows"
    /\ ~scope.allow_unscoped
    /\ scope.user.is_authenticated /\ ~scope.user.is_staff
    /\ scope.user.leader = 1
    /\ scope.filters.faction_slug = PyAbsent
    /\ scope.filters.facility_slug = PyStr(FacilitySlug(1))
    /\ scope.filters.start = PyInt(2)
    /\ scope.filters.end = PyNoneValue
    /\ Len(scope.rows) = 2
    /\ scope.rows[1] = RowOf(FactionEnrollment(1))
    /\ scope.rows[2] = RowOf(FactionEnrollment(TableSize))

\* ------------------------------------------------------------------ C12
\* C12: whatever templates were created and shared, the list endpoint for a
\* logged-in user U returns exactly the templates T with T.created_by = U or
\* U in T.available_to: each of them once (also when U owns T and is in
\* T.available_to, or T is shared with several users) and no other template.
C12_ListIsOwnedOrShared ==
    (request.view = "list" /\ request.user \in Users /\ request.method = "GET") =>
        /\ response.status = 200
        /\ DOMAIN response.reports = 1..Len(templates)
        /\ \A t \in 1..Len(templates) :
               response.reports[t] = IF OwnerOrShared(t, request.user) THEN 1 ELSE 0

\* the user owns a template that is shared with them and with another user,
\* has a second one shared with them by its owner, and the list holds each once
C12_Witness ==
    /\ request.view = "list"
    /\ request.method = "GET"
    /\ Len(templates) = 2
    /\ \E u \in Users, v \in Users :
           /\ u # v
           /\ request.user = u
           /\ templates[1].created_by = u
           /\ templates[1].available_to = {u, v}
           /\ templates[2].created_by = v
           /\ templates[2].available_to = {u}
           /\ response.reports = <<1, 1>>

\* ------------------------------------------------------------------ C13
\* the unscope bypass applies to the call: the report declares itself
\* eligible, the user holds an administrative capability and the filters ask
\* for the unscoped view
BypassApplies ==
    /\ scope.allow_unscoped
    /\ \/ scope.user.is_superuser \/ scope.user.is_staff
       \/ scope.user.leader_admin \/ scope.user.faculty_admin
       \/ scope.user.department_admin
    /\ scope.filters.unscoped = "True"

\* the row is of the user's faction, of the user's facility, or of a faction
\* of the user's organization
InsideScope(user, row) ==
    LET faction == RowGet(row, "Faction", PyNoneValue)
        facility == RowGet(row, "Facility", PyNoneValue)
    IN  \/ user.leader \in Factions /\ faction = PyStr(FactionName(user.leader))
        \/ user.attendee \in Factions /\ faction = PyStr(FactionName(user.attendee))
        \/ user.faculty \in Facilities /\ facility = PyStr(FacilityName(user.faculty))
        \/ \E f \in Factions :
               FactionOrg(f) = user.org /\ faction = PyStr(FactionName(f))

\* C13: for every authenticated user who is neither superuser nor staff and
\* for whom the unscope bypass does not apply, every row that a built-in
\* report's get_rows returns lies inside the user's scope (their faction,
\* their facility or their organization); such a user never receives the
\* unrestricted result of a staff user.
C13_RowsInsideScope ==
    (/\ scope.call = "rows"
     /\ scope.user.is_authenticated
     /\ ~scope.user.is_superuser /\ ~scope.user.is_staff
     /\ ~BypassApplies) =>
        \A i \in 1..Len(scope.rows) : InsideScope(scope.user, scope.rows[i])

====
